---- MODULE Spec2Model ----
(***************************************************************************)
(* Model of app.py, the Streamlit content generator: the retrieval         *)
(* fallback chain (retrieve_content and its collaborators) and the         *)
(* session handlers (generate, refine, clear) that own the stored output.  *)
(* Python strings are TLA+ strings; Len, SubSeq and \o act on them.        *)
(***************************************************************************)
EXTENDS Integers, Sequences, FiniteSets, TLC

VARIABLES
    secrets,      \* st.secrets as the latest run read it: sections present
    output,       \* st.session_state.output
    seo_results,  \* st.session_state.seo_results
    last_prompt,  \* st.session_state.last_prompt: <<>> while unset, else <<q>>
    act,          \* the widget values of the script run that just finished
    calls,        \* collaborator calls made by that run, in call order
    errors,       \* st.error messages shown by that run, in order
    prompt,       \* <<p>> when the run sent prompt p to the chat client
    before,       \* session output when that run started
    ref_text,     \* <<t>>: final_content of that run (line 726), if it got there
    lastChat,     \* <<t>>: text of the latest successful chat call since clear
    lastText,     \* <<t>>: the latest non-empty such text since clear
    rin,          \* arguments of the latest direct retrieval/fetch call
    rout          \* its result and call trace

vars == <<secrets, output, seo_results, last_prompt, act, calls, errors,
          prompt, before, ref_text, lastChat, lastText, rin, rout>>

sessionVars == <<secrets, output, seo_results, last_prompt, act, calls,
                 errors, prompt, before, ref_text, lastChat, lastText>>

-----------------------------------------------------------------------------
(* Bounds of the explored inputs                                           *)

MaxFiles == 2       \* uploaded files per direct retrieve_content call
MaxUrls == 2        \* URLs per direct retrieve_content call
MaxWords == 3       \* words per text given to enforce_word_limit
MaxLimit == 2       \* largest limit given to enforce_word_limit

-----------------------------------------------------------------------------
(* Python string primitives                                                *)

\* the characters str.strip() and str.split() treat as whitespace: space,
\* \t, \n, \r, \f, then the vertical tab \x0b, the separators \x1c, \x1d,
\* \x1e, \x1f, the next-line character U+0085 and the no-break space
\* U+00A0, which have no escape and stand raw between the quotes;
\* whitespace above U+00FF cannot be held by a string here
Whitespace ==
    {" ", "\t", "\n", "\r", "\f", "", "", "", "", "",
     "", " "}

RECURSIVE lstrip(_)
lstrip(s) ==
    IF s = "" THEN ""
    ELSE IF SubSeq(s, 1, 1) \in Whitespace THEN lstrip(SubSeq(s, 2, Len(s)))
    ELSE s

RECURSIVE rstrip(_)
rstrip(s) ==
    IF s = "" THEN ""
    ELSE IF SubSeq(s, Len(s), Len(s)) \in Whitespace
         THEN rstrip(SubSeq(s, 1, Len(s) - 1))
    ELSE s

strip(s) == rstrip(lstrip(s))

\* str.lower() of one character: A-Z and the capitals U+00C0..U+00DE other
\* than the multiplication sign U+00D7
LowerChar(c) ==
    CASE c = "A" -> "a" [] c = "B" -> "b" [] c = "C" -> "c" [] c = "D" -> "d"
      [] c = "E" -> "e" [] c = "F" -> "f" [] c = "G" -> "g" [] c = "H" -> "h"
      [] c = "I" -> "i" [] c = "J" -> "j" [] c = "K" -> "k" [] c = "L" -> "l"
      [] c = "M" -> "m" [] c = "N" -> "n" [] c = "O" -> "o" [] c = "P" -> "p"
      [] c = "Q" -> "q" [] c = "R" -> "r" [] c = "S" -> "s" [] c = "T" -> "t"
      [] c = "U" -> "u" [] c = "V" -> "v" [] c = "W" -> "w" [] c = "X" -> "x"
      [] c = "Y" -> "y" [] c = "Z" -> "z"
      [] c = "À" -> "à" [] c = "Á" -> "á" [] c = "Â" -> "â"
      [] c = "Ã" -> "ã" [] c = "Ä" -> "ä" [] c = "Å" -> "å"
      [] c = "Æ" -> "æ" [] c = "Ç" -> "ç" [] c = "È" -> "è"
      [] c = "É" -> "é" [] c = "Ê" -> "ê" [] c = "Ë" -> "ë"
      [] c = "Ì" -> "ì" [] c = "Í" -> "í" [] c = "Î" -> "î"
      [] c = "Ï" -> "ï" [] c = "Ð" -> "ð" [] c = "Ñ" -> "ñ"
      [] c = "Ò" -> "ò" [] c = "Ó" -> "ó" [] c = "Ô" -> "ô"
      [] c = "Õ" -> "õ" [] c = "Ö" -> "ö" [] c = "Ø" -> "ø"
      [] c = "Ù" -> "ù" [] c = "Ú" -> "ú" [] c = "Û" -> "û"
      [] c = "Ü" -> "ü" [] c = "Ý" -> "ý" [] c = "Þ" -> "þ"
      [] OTHER -> c

RECURSIVE lower(_)
lower(s) ==
    IF s = "" THEN ""
    ELSE LowerChar(SubSeq(s, 1, 1)) \o lower(SubSeq(s, 2, Len(s)))

startswith(s, p) == Len(s) >= Len(p) /\ SubSeq(s, 1, Len(p)) = p

endswith(s, p) ==
    Len(s) >= Len(p) /\ SubSeq(s, Len(s) - Len(p) + 1, Len(s)) = p

\* sep.join(parts)
RECURSIVE join(_, _)
join(sep, parts) ==
    IF parts = <<>> THEN ""
    ELSE IF Len(parts) = 1 THEN parts[1]
    ELSE parts[1] \o sep \o join(sep, Tail(parts))

\* ''.join(part + suffix for part in parts)
RECURSIVE concat_each(_, _)
concat_each(parts, suffix) ==
    IF parts = <<>> THEN ""
    ELSE parts[1] \o suffix \o concat_each(Tail(parts), suffix)

\* the length of the leading run of non-whitespace characters of s
RECURSIVE word_len(_)
word_len(s) ==
    IF s = "" \/ SubSeq(s, 1, 1) \in Whitespace THEN 0
    ELSE 1 + word_len(SubSeq(s, 2, Len(s)))

\* s.split(): the maximal runs of non-whitespace characters, in order
RECURSIVE split(_)
split(s) ==
    LET t == lstrip(s)
    IN IF t = "" THEN <<>>
       ELSE <<SubSeq(t, 1, word_len(t))>>
            \o split(SubSeq(t, word_len(t) + 1, Len(t)))

\* s.rstrip(chars), chars given as a set of characters
RECURSIVE rstrip_chars(_, _)
rstrip_chars(s, chars) ==
    IF s = "" THEN ""
    ELSE IF SubSeq(s, Len(s), Len(s)) \in chars
         THEN rstrip_chars(SubSeq(s, 1, Len(s) - 1), chars)
    ELSE s

Min(a, b) == IF a <= b THEN a ELSE b

\* every sequence over S of length at most n
SeqUpTo(S, n) == UNION {[1..k -> S] : k \in 0..n}

-----------------------------------------------------------------------------
(* The network as the program sees it.  A POST to the answer service       *)
(* either raises (transport error, non-2xx status in raise_for_status,     *)
(* body that is not JSON) or yields a JSON object; answer is <<a>> when    *)
(* the object has an "answer" field, data is <<list>> when it has a        *)
(* "data" list, and an item's text is <<t>> when it has a "text" field.    *)

Raises(msg) == [raises |-> TRUE, msg |-> msg, answer |-> <<>>, data |-> <<>>]
Json(answer, data) ==
    [raises |-> FALSE, msg |-> "", answer |-> answer, data |-> data]
Item(t) == [text |-> <<t>>]
NoText == [text |-> <<>>]

UrlPrompt == "Extract main article content from: "

U_answer == "https://a.example/answer"
U_data == "https://a.example/data"
U_plain == "https://a.example/plain"
U_404 == "https://a.example/missing"
U_down == "https://down.example/"
U_svcfail == "https://a.example/live"
U_dead == "https://dead.example/"
U_blank == " "

Q_answer == "AI in retail"
Q_fail == "edge computing"
Q_errlike == "API errors"
Q_data == "SAP"

\* the answer service's reply to each query of the explored universe
requests_post(query) ==
    CASE query = UrlPrompt \o U_answer -> Json(<<"Article A">>, <<>>)
      [] query = UrlPrompt \o U_data ->
             Json(<<>>, << <<Item("Part 1"), NoText, Item("Part 2")>> >>)
      [] query = UrlPrompt \o U_svcfail -> Raises("503 Server Error")
      [] query = UrlPrompt \o U_dead -> Raises("timed out")
      [] query = Q_answer -> Json(<<"Retail AI overview">>, <<>>)
      [] query = Q_fail -> Raises("503 Server Error")
      [] query = Q_errlike ->
             Json(<<"Perplexity API Error codes explained">>, <<>>)
      [] query = Q_data ->
             Json(<<>>, << <<Item("r1"), NoText, Item("r2"), Item("r3"),
                             Item("r4"), Item("r5"), Item("r6")>> >>)
      [] OTHER -> Json(<<>>, <<>>)

\* the direct GET of each URL: raises, or a response with ok and text
requests_get(url) ==
    CASE url = U_answer -> [raises |-> FALSE, msg |-> "", ok |-> TRUE,
                            text |-> "<html>A</html>"]
      [] url = U_data -> [raises |-> FALSE, msg |-> "", ok |-> TRUE,
                          text |-> "<html>D</html>"]
      [] url = U_plain -> [raises |-> FALSE, msg |-> "", ok |-> TRUE,
                           text |-> "<html>plain</html>"]
      [] url = U_svcfail -> [raises |-> FALSE, msg |-> "", ok |-> TRUE,
                             text |-> "<html>live</html>"]
      [] url = U_404 -> [raises |-> FALSE, msg |-> "", ok |-> FALSE,
                         text |-> "Not Found"]
      [] OTHER -> [raises |-> TRUE, msg |-> "connection refused",
                   ok |-> FALSE, text |-> ""]

\* the URLs fetched one by one, and those that url_list is drawn from
Urls == {U_answer, U_data, U_plain, U_404, U_down, U_svcfail, U_dead, U_blank}
ListedUrls == {U_answer, U_404, U_down, U_svcfail}
Queries == {Q_answer, Q_fail, Q_errlike, Q_data}

PostCall(query) == <<"requests.post", query>>
GetCall(url) == <<"requests.get", url>>

-----------------------------------------------------------------------------
(* perplexity_search and extract_text_from_url.  Each operator yields the  *)
(* returned string and the calls it made: [text, calls].                   *)

MaxResults == 5

RECURSIVE item_texts(_)
\* [item["text"] for item in items if "text" in item]
item_texts(items) ==
    IF items = <<>> THEN <<>>
    ELSE (IF items[1].text # <<>> THEN <<items[1].text[1]>> ELSE <<>>)
         \o item_texts(Tail(items))

RECURSIVE item_gets(_)
\* [d.get("text", "") for d in items]
item_gets(items) ==
    IF items = <<>> THEN <<>>
    ELSE <<IF items[1].text # <<>> THEN items[1].text[1] ELSE "">>
         \o item_gets(Tail(items))

perplexity_search(query, api_key) ==
    IF ~api_key THEN [text |-> "", calls |-> <<>>]
    ELSE LET data == requests_post(query)
             results ==
                 IF data.answer # <<>> THEN <<data.answer[1]>>
                 ELSE IF data.data # <<>>
                      THEN item_texts(SubSeq(data.data[1], 1,
                                  Min(MaxResults, Len(data.data[1]))))
                 ELSE <<>>
         IN [text |-> IF data.raises
                      THEN "Perplexity API Error: " \o data.msg
                      ELSE join("\n", results),
             calls |-> <<PostCall(query)>>]

\* lines 106-112: the direct GET, after the calls made so far
direct_get(url, made) ==
    LET r == requests_get(url)
    IN [text |-> IF r.raises THEN "Error extracting URL content: " \o r.msg
                 ELSE IF r.ok THEN r.text
                 ELSE "",
        calls |-> made \o <<GetCall(url)>>]

extract_text_from_url(url, api_key) ==
    IF url = "" \/ strip(url) = "" THEN [text |-> "", calls |-> <<>>]
    ELSE IF api_key
    THEN LET data == requests_post(UrlPrompt \o url)
             made == <<PostCall(UrlPrompt \o url)>>
         IN IF data.raises
            THEN [text |-> "Error extracting URL content: " \o data.msg,
                  calls |-> made]
            ELSE IF data.answer # <<>>
            THEN [text |-> data.answer[1], calls |-> made]
            ELSE IF data.data # <<>>
            THEN [text |-> join("\n", item_gets(data.data[1])),
                  calls |-> made]
            ELSE direct_get(url, made)
    ELSE direct_get(url, <<>>)

-----------------------------------------------------------------------------
(* extract_text_from_file.  An upload is its name, the texts of its parts  *)
(* in document order (the decoded bytes of a txt, the pages of a pdf, the  *)
(* paragraphs of a docx, the text shapes of a pptx) and failAt: 0 when     *)
(* the parser reads it all, k when the parser raises on reaching part k.   *)

Upload(name, parts, failAt) ==
    [name |-> name, parts |-> parts, failAt |-> failAt]

readable(file) ==
    IF file.failAt = 0 THEN file.parts
    ELSE SubSeq(file.parts, 1, file.failAt - 1)

extract_text_from_file(file) ==
    LET name == lower(file.name)
        text ==
            IF endswith(name, ".txt")
            THEN IF file.failAt = 0 THEN concat_each(file.parts, "") ELSE ""
            ELSE IF endswith(name, ".pdf")
            THEN concat_each(readable(file), "")
            ELSE IF endswith(name, ".docx")
            THEN IF file.failAt = 0 THEN join("\n", file.parts) ELSE ""
            ELSE IF endswith(name, ".pptx")
            THEN concat_each(readable(file), "\n")
            ELSE ""
    IN strip(text)

F_txt == Upload("Brief.TXT", <<"Alpha">>, 0)
F_blank == Upload("blank.txt", <<" \n">>, 0)
F_pdf == Upload("deck.pdf", <<"Page one. ", "Page two.">>, 2)
F_docx == Upload("bad.docx", <<"Intro", "Body">>, 1)
F_pptx == Upload("talk.pptx", <<"Slide A", "Slide B">>, 0)

\* the uploads read one by one, and those that uploaded_files is drawn from
Uploads == {F_txt, F_blank, F_pdf, F_docx, F_pptx}
Files == {F_txt, F_pdf, F_docx}

FileCall(file) == <<"extract_text_from_file", file.name>>
UrlCall(url) == <<"extract_text_from_url", url>>

-----------------------------------------------------------------------------
(* The similarity-search client: None, or a client that raises or returns  *)
(* documents; page_content is <<t>> when the document has the attribute,   *)
(* and str is the document's str().                                        *)

TopK == 20

Doc(t) == [page_content |-> <<t>>, str |-> "Document(" \o t \o ")"]
Bare(s) == [page_content |-> <<>>, str |-> s]

Db(raises, docs) == [is_none |-> FALSE, raises |-> raises, docs |-> docs]
DbNone == [is_none |-> TRUE, raises |-> FALSE, docs |-> <<>>]
DbEmpty == Db(FALSE, <<>>)
DbRaises == Db(TRUE, <<>>)
DbDocs == Db(FALSE, <<Doc("Stored A"), Bare("row 7"), Doc("Stored B ")>>)
DbBlank == Db(FALSE, <<Doc("  "), Doc("\n")>>)

Dbs == {DbNone, DbRaises, DbDocs, DbBlank}

\* db.similarity_search(query, k): the k nearest documents
similarity_search(db, query, k) == SubSeq(db.docs, 1, Min(k, Len(db.docs)))

RECURSIVE doc_texts(_)
\* [getattr(doc, "page_content", str(doc)) for doc in docs]
doc_texts(docs) ==
    IF docs = <<>> THEN <<>>
    ELSE <<IF docs[1].page_content # <<>> THEN docs[1].page_content[1]
           ELSE docs[1].str>>
         \o doc_texts(Tail(docs))

SimCall(query) == <<"similarity_search", query>>
TopicCall(query) == <<"perplexity_search", query>>

-----------------------------------------------------------------------------
(* retrieve_content, lines 416-455.  A trace is [text, calls]: the string  *)
(* built so far and the collaborator calls made so far.                    *)

RECURSIVE files_loop(_, _)
\* lines 421-422: uploaded_text += extract_text_from_file(f) + "\n"
files_loop(uploaded_files, acc) ==
    IF uploaded_files = <<>> THEN acc
    ELSE files_loop(Tail(uploaded_files),
             [text |-> acc.text
                       \o extract_text_from_file(uploaded_files[1]) \o "\n",
              calls |-> acc.calls \o <<FileCall(uploaded_files[1])>>])

RECURSIVE urls_loop(_, _, _)
\* lines 429-430: url_text += extract_text_from_url(url) + "\n"
urls_loop(url_list, api_key, acc) ==
    IF url_list = <<>> THEN acc
    ELSE LET got == extract_text_from_url(url_list[1], api_key)
         IN urls_loop(Tail(url_list), api_key,
                [text |-> acc.text \o got.text \o "\n",
                 calls |-> acc.calls \o <<UrlCall(url_list[1])>>
                           \o got.calls])

\* lines 435-443: the similarity tier; the client is called unless it is None
hana_tier(query, db, made) ==
    IF db.is_none THEN [text |-> "", calls |-> made]
    ELSE LET docs == similarity_search(db, query, TopK)
         IN [text |-> IF db.raises \/ docs = <<>> THEN ""
                      ELSE join("\n", doc_texts(docs)),
             calls |-> made \o <<SimCall(query)>>]

\* the check without .lower()
looks_like_error_case_sensitive(p_text) ==
    startswith(p_text, "perplexity api error")

looks_like_error(p_text) == startswith(lower(p_text), "perplexity api error")

\* lines 448-455: the topic-search tier
topic_tier(query, api_key, made) ==
    LET p == perplexity_search(query, api_key)
    IN [text |-> IF p.text # "" /\ ~looks_like_error(p.text) THEN p.text
                 ELSE "",
        calls |-> made \o <<TopicCall(query)>> \o p.calls]

\* every tier is evaluated before the first non-empty one is picked
retrieve_trace_eager(query, uploaded_files, url_list, db, api_key) ==
    LET uploaded == files_loop(uploaded_files, [text |-> "", calls |-> <<>>])
        url == urls_loop(url_list, api_key,
                         [text |-> "", calls |-> uploaded.calls])
        hana == hana_tier(query, db, url.calls)
        topic == topic_tier(query, api_key, hana.calls)
    IN [text |-> IF strip(uploaded.text) # "" THEN strip(uploaded.text)
                 ELSE IF strip(url.text) # "" THEN strip(url.text)
                 ELSE IF strip(hana.text) # "" THEN strip(hana.text)
                 ELSE topic.text,
        calls |-> topic.calls]

retrieve_trace(query, uploaded_files, url_list, db, api_key) ==
    LET uploaded == files_loop(uploaded_files, [text |-> "", calls |-> <<>>])
    IN IF strip(uploaded.text) # ""
       THEN [text |-> strip(uploaded.text), calls |-> uploaded.calls]
       ELSE LET url == urls_loop(url_list, api_key,
                           [text |-> "", calls |-> uploaded.calls])
            IN IF strip(url.text) # ""
               THEN [text |-> strip(url.text), calls |-> url.calls]
               ELSE LET hana == hana_tier(query, db, url.calls)
                    IN IF strip(hana.text) # ""
                       THEN [text |-> strip(hana.text), calls |-> hana.calls]
                       ELSE topic_tier(query, api_key, hana.calls)

retrieve_content(query, uploaded_files, url_list, db, api_key) ==
    retrieve_trace(query, uploaded_files, url_list, db, api_key).text

-----------------------------------------------------------------------------
(* Prompt builders, lines 459-685.  The lookup tables are verbatim; of     *)
(* the two templates the lines that carry a placeholder are kept and each  *)
(* run of fixed lines between them is written "(...)".  Characters        *)
(* outside ASCII have no written form in a string of this module: the     *)
(* typographic quotes around the CTA are written ', the en dashes -, the   *)
(* arrows -> and the keycap digit 6.                                       *)

\* dict.get(tone, ""): the later "Authoritative" entry replaces the earlier
tone_guidelines(tone) ==
    CASE tone = "Professional" ->
                "Use clear, concise, and confident language. Focus on "
             \o "credibility, precision, and business relevance."
      [] tone = "Friendly" ->
                "Use warm, conversational, and easy-to-understand language. "
             \o "Maintain professionalism but sound approachable."
      [] tone = "Authoritative" ->
                "Adopt an expert voice with data-backed reasoning. Establish "
             \o "trust through precision and confidence."
      [] tone = "Playful" ->
                "Use witty, light-hearted, and creative phrasing. Keep the "
             \o "tone fun yet informative, with clever transitions."
      [] tone = "Inspirational" ->
                "Use motivational and uplifting language. Focus on positive "
             \o "change, growth, and vision-driven storytelling."
      [] tone = "Conversational" ->
                "Write as if speaking naturally to the reader. Use a relaxed "
             \o "and engaging tone with simple, flowing sentences."
      [] tone = "Casual" ->
                "Keep the language light, informal, and easy to follow. Avoid "
             \o "jargon; use contractions and relatable examples."
      [] tone = "Semi-casual" ->
                "Balance professionalism with friendliness. Use polite, "
             \o "natural phrasing that feels human but credible."
      [] tone = "Business professional" ->
                "Maintain a formal, respectful tone suitable for executive "
             \o "audiences. Emphasize clarity, accuracy, and authority."
      [] tone = "Approachable" ->
                "Use inclusive and welcoming language. Avoid overly technical "
             \o "terms; sound supportive and open to dialogue."
      [] tone = "Informative" ->
                "Focus on clarity and explanation. Use structured, factual "
             \o "sentences that educate the reader efficiently."
      [] tone = "Assertive" ->
                "Use confident, decisive language. Clearly express opinions "
             \o "or recommendations without sounding aggressive."
      [] tone = "Engaging" ->
                "Use dynamic, audience-focused language. Vary rhythm, include "
             \o "questions, and keep readers emotionally connected."
      [] tone = "First person usage + Visionary (for Thought Leadership Articles)" ->
                "Use 'I' or 'we' statements to express personal experience "
             \o "and vision. Inspire forward-thinking perspectives and "
             \o "leadership insights."
      [] tone = "Confident" ->
                "Use strong, assured language with active voice. Present "
             \o "ideas as well-founded and impactful."
      [] tone = "Data-driven" ->
                "Use factual, analytical language supported by evidence and "
             \o "statistics. Focus on insights, accuracy, and quantifiable "
             \o "outcomes."
      [] tone = "Plainspoken or direct" ->
                "Be concise, honest, and transparent. Avoid buzzwords and "
             \o "fluff; prioritize clarity and directness."
      [] tone = "Witty (a bit of humour for special cases)" ->
                "Add subtle humor or clever turns of phrase. Keep it "
             \o "tasteful, intelligent, and contextually relevant."
      [] tone = "Storytelling" ->
                "Use narrative-driven language with emotional pull. Build "
             \o "flow with characters, challenges, and resolutions to keep "
             \o "readers immersed."
      [] OTHER -> ""

audience_guidelines(target_audience) ==
    CASE target_audience = "Senior Management" ->
                "Focus on strategic insights, ROI, and business impact. Use "
             \o "concise, high-level language. Avoid unnecessary technical "
             \o "details."
      [] target_audience = "Middle Management" ->
                "Provide actionable guidance, practical steps, and "
             \o "process-oriented insights. Balance strategic context with "
             \o "implementation advice."
      [] target_audience = "Junior/Entry Level Staff" ->
                "Explain clearly, use simple examples, and avoid jargon. "
             \o "Focus on learning, awareness, and foundational concepts."
      [] OTHER -> ""

generate_prompt_guidelines(tone, target_audience) ==
    [tone_instruction |-> tone_guidelines(tone),
     audience_instruction |-> audience_guidelines(target_audience)]

TerminalPunctuation == {".", "!", "?"}
TrailingSeparators == {",", ";", ":"}

\* the first limit words are returned as they were joined
enforce_word_limit_unfinished(text, limit) ==
    LET words == split(text)
    IN IF limit <= 0 THEN text
       ELSE IF Len(words) <= limit THEN text
       ELSE join(" ", SubSeq(words, 1, limit))

\* lines 497-508; limit is an integer, 0 standing for every falsy limit
enforce_word_limit(text, limit) ==
    LET words == split(text)
        trimmed == join(" ", SubSeq(words, 1, limit))
    IN IF limit <= 0 THEN text
       ELSE IF Len(words) <= limit THEN text
       ELSE IF \E p \in TerminalPunctuation : endswith(trimmed, p)
       THEN trimmed
       ELSE rstrip_chars(trimmed, TrailingSeparators) \o "."

\* cta_mapping.get(cta_choice, cta_choice), lines 689-697 and 729
cta_mapping(cta_choice) ==
    CASE cta_choice = "Book Assessment" ->
                "Book your free SAP Clean Core Assessment today."
      [] cta_choice = "Request a demo" ->
                "Request a demo to see the solution in action."
      [] cta_choice = "Talk to our experts" ->
                "Talk to our experts to discuss your requirements."
      [] cta_choice = "Learn more about our solutions" ->
                "Learn more about our solutions tailored to your needs."
      [] cta_choice = "Contact us today" ->
                "Contact us today to get started."
      [] cta_choice = "Download the full guide" ->
                "Download the full guide to explore more insights."
      [] cta_choice = "Book a free consultation" ->
                "Book your free consultation today."
      [] OTHER -> cta_choice

Digit(d) == SubSeq("0123456789", d + 1, d + 1)

RECURSIVE str(_)
\* str(n) of a natural number
str(n) == IF n < 10 THEN Digit(n) ELSE str(n \div 10) \o Digit(n % 10)

\* f"{n:02d}"
str02(n) == IF n < 10 THEN "0" \o str(n) ELSE str(n)

Max(a, b) == IF a >= b THEN a ELSE b

\* the default is never substituted
or_else_keeps_empty(x, default) == x

\* x or default, for strings
or_else(x, default) == IF x # "" THEN x ELSE default

\* word_limit is <<>> for None and <<n>> for the integer n
str_opt(word_limit) == IF word_limit = <<>> THEN "None" ELSE str(word_limit[1])

WordBand == 20

\* the lower bound is clamped at 0 instead of 1
word_limit_instruction_from_zero(word_limit) ==
    IF word_limit # <<>> /\ word_limit[1] # 0
    THEN LET lo == Max(0, word_limit[1] - WordBand)
             hi == word_limit[1] + WordBand
         IN "The final blog MUST be between " \o str(lo) \o " and "
            \o str(hi) \o " words. "
            \o "Do NOT exceed this range. "
            \o "Stop immediately once you reach the word limit."
    ELSE ""

\* lines 516-524
word_limit_instruction(word_limit) ==
    IF word_limit # <<>> /\ word_limit[1] # 0
    THEN LET lo == Max(Max(1, word_limit[1] - WordBand), 1)
             hi == word_limit[1] + WordBand
         IN "The final blog MUST be between " \o str(lo) \o " and "
            \o str(hi) \o " words. "
            \o "Do NOT exceed this range. "
            \o "Stop immediately once you reach the word limit."
    ELSE ""

generate_blog_prompt(tone, target_audience, industry, query, word_limit, final_content, primary_keyword, lsi_keywords, cta_text) ==
    LET g == generate_prompt_guidelines(tone, target_audience)
    IN "\n(...)\n- Tone: " \o g.tone_instruction
       \o "\n- Audience: " \o g.audience_instruction
       \o "\n(...)\n   - End with a strong CTA: '" \o cta_text \o "'"
       \o "\n(...)\n- Primary Keyword: \"" \o primary_keyword \o "\""
       \o "\n(...)\n- LSI Keywords: "
       \o or_else(join(", ", lsi_keywords), "none")
       \o "\n(...)\nIndustry: " \o or_else(industry, "Enterprise / B2B")
       \o "\nWord Limit: ~" \o str_opt(word_limit) \o " words"
       \o "\nTopic: \"" \o query \o "\""
       \o "\n\nREFERENCE CONTENT:\n"
       \o or_else(final_content, "[No reference content provided]")
       \o "\n(...)\n" \o word_limit_instruction(word_limit) \o "\n\n"

ScenesPerMinute == 4
MinScenes == 4

\* time_limit is the slider value in half minutes: 3 is 1.5 minutes; a
\* widget record holds <<>> for None and <<n>> for the value n
str_minutes(time_limit) ==
    str(time_limit \div 2) \o (IF time_limit % 2 = 1 THEN ".5" ELSE ".0")

\* the scene count without its floor of four
scenes_of_unclamped(time_limit) == (time_limit * ScenesPerMinute) \div 2

\* line 620: max(4, int(time_limit * 4))
scenes_of(time_limit) ==
    Max(MinScenes, (time_limit * ScenesPerMinute) \div 2)

\* line 621: int((time_limit * 60) / scenes)
scene_duration_of(time_limit) ==
    ((time_limit * 60) \div 2) \div scenes_of(time_limit)

generate_video_prompt(tone, target_audience, industry, final_content, cta_text, query, time_limit) ==
    LET g == generate_prompt_guidelines(tone, target_audience)
        scenes == scenes_of(time_limit)
        scene_duration == scene_duration_of(time_limit)
    IN "\n(...)\nWrite a **timestamp-based video script** for the topic: \""
       \o query \o "\" in the " \o or_else(industry, "enterprise")
       \o " industry."
       \o "\n(...)\n- **Timestamp** (e.g. 0:00-0:" \o str02(scene_duration)
       \o ")"
       \o "\n(...)\n- Total video duration: ~" \o str_minutes(time_limit)
       \o " minute(s)"
       \o "\n- Divide into ~" \o str(scenes) \o " scenes (~"
       \o str(scene_duration) \o " seconds each)"
       \o "\n(...)\n6 **Call-to-Action & Closing** - must sound human, "
       \o "confident, and aligned with \"" \o cta_text \o "\""
       \o "\n(...)\n- Tone: " \o g.tone_instruction
       \o "\n- Target Audience: " \o g.audience_instruction
       \o "\n(...)\nIndustry: " \o or_else(industry, "Not specified")
       \o "\nTopic: \"" \o query \o "\""
       \o "\nReference Content:\n"
       \o or_else(final_content, "[No reference material provided]")
       \o "\n(...)\n0:00-0:" \o str02(scene_duration)
       \o " -> [Scene 1: Problem introduction narration and visuals]  "
       \o "\n0:" \o str02(scene_duration) \o "-0:"
       \o str02(scene_duration * 2)
       \o " -> [Scene 2: Brand introduction narration and visuals]  "
       \o "\n\n"

-----------------------------------------------------------------------------
(* init_services and call_openai_chat                                      *)

NoCall == [op |-> "none"]
NoResult == [done |-> FALSE, text |-> "", calls |-> <<>>]

Secrets == [database : BOOLEAN, azure : BOOLEAN, perplexity : BOOLEAN]
AllSecrets == [database |-> TRUE, azure |-> TRUE, perplexity |-> TRUE]

\* only the database section is checked
missing_secrets_database_only(config) ==
    IF ~config.database
    THEN <<"Database secrets not found.",
           "Service init error: Database secrets not found.">>
    ELSE <<>>

\* lines 355-365 with the callers' except clause (718-721, 764-767):
\* the st.error messages when a configuration section is absent
missing_secrets(config) ==
    IF ~config.database
    THEN <<"Database secrets not found.",
           "Service init error: Database secrets not found.">>
    ELSE IF ~config.azure
    THEN <<"Azure secrets not found.",
           "Service init error: Azure secrets not found.">>
    ELSE <<>>

\* lines 367-379 with the callers' except clause: dbapi.connect raises
Backends == {"up", "down"}
ConnectFailure == "connection refused"
connect_errors(backend) ==
    IF backend = "down"
    THEN <<"HANA connection error: " \o ConnectFailure,
           "Service init error: " \o ConnectFailure>>
    ELSE <<>>

\* what client.chat.completions.create does: raises, or completes with content
ChatRaises(msg) == [raises |-> TRUE, msg |-> msg, content |-> ""]
ChatText(t) == [raises |-> FALSE, msg |-> "", content |-> t]
ChatIdle == [raises |-> FALSE, msg |-> "not called", content |-> ""]

Chats == {ChatRaises("rate limit"), ChatText(""), ChatText("Draft one"),
          ChatText("Draft two")}

GenerateMaxTokens == 3200
RefineMaxTokens == 3000

InitCall == <<"init_services", "">>
BlogPromptCall == <<"generate_blog_prompt", "">>
VideoPromptCall == <<"generate_video_prompt", "">>
ChatCall(max_tokens) == <<"call_openai_chat", str(max_tokens)>>

-----------------------------------------------------------------------------
(* Widget values of one script run.  backend, db and chat are what the     *)
(* collaborators answered in that run; they keep the values below when     *)
(* the run never reached them.                                             *)

ContentTypes == {"Blog", "Video Script"}
Topics == {"", "  ", " " \o Q_answer \o " "}
Keywords == {" ", " retail AI "}
Instructions == {"", " \n", " shorten the intro\n"}

\* st.secrets of a run: everything present, no answer-service key, no
\* database section, no chat-service section
SessSecrets ==
    {AllSecrets, [AllSecrets EXCEPT !.perplexity = FALSE],
     [AllSecrets EXCEPT !.database = FALSE],
     [AllSecrets EXCEPT !.azure = FALSE, !.perplexity = FALSE]}

\* reference material of a run: the uploads, the URL list (line 265 keeps
\* only non-blank entries) and the table the similarity client searches
Reference(uploaded_files, url_list, db) ==
    [uploaded_files |-> uploaded_files, url_list |-> url_list, db |-> db]

References ==
    {Reference(<<F_txt>>, <<U_down>>, DbDocs),
     Reference(<<>>, <<U_down>>, DbDocs),
     Reference(<<>>, <<>>, DbDocs),
     Reference(<<>>, <<>>, DbEmpty)}

DefaultWordLimit == 1000
DefaultTimeLimit == 3

\* the sliders of lines 165 and 168: 300..2000 words in steps of 100, and
\* 0.5..10.0 minutes in steps of 0.5, counted in half minutes
WordLimits == {100 * k : k \in 3..20}
TimeLimits == 1..20

\* the options of the selectors at lines 142-156
ToneOptions ==
    {"Professional", "Friendly", "Authoritative", "Playful", "Inspirational",
     "Conversational", "Casual", "Semi-casual", "Business professional",
     "Approachable", "Informative", "Assertive", "Engaging",
     "Visionary (for Thought Leadership)", "Confident", "Data-driven",
     "Plainspoken / Direct", "Witty", "Storytelling"}

AudienceOptions ==
    {"Senior Management", "Middle Management", "Junior / Entry Level Staff"}

\* the keys of the two tables at lines 460-492
ToneKeys ==
    {"Professional", "Friendly", "Authoritative", "Playful", "Inspirational",
     "Conversational", "Casual", "Semi-casual", "Business professional",
     "Approachable", "Informative", "Assertive", "Engaging",
     "First person usage + Visionary (for Thought Leadership Articles)",
     "Confident", "Data-driven", "Plainspoken or direct",
     "Witty (a bit of humour for special cases)", "Storytelling"}

AudienceKeys ==
    {"Senior Management", "Middle Management", "Junior/Entry Level Staff"}

Widgets ==
    [handler |-> "none",
     content_type |-> "Blog", tone |-> "Professional",
     target_audience |-> "Senior Management", industry |-> "",
     word_limit |-> <<DefaultWordLimit>>, time_limit |-> <<>>,
     cta_choice |-> "Talk to our experts", query |-> "",
     primary_keyword |-> "", lsi_keywords |-> <<>>,
     uploaded_files |-> <<>>, url_list |-> <<>>,
     refine_instruction |-> "", backend |-> "unused", db |-> DbNone,
     chat |-> ChatIdle]

Init ==
    /\ secrets = AllSecrets
    /\ output = ""
    /\ seo_results = {}
    /\ last_prompt = <<>>
    /\ act = Widgets
    /\ calls = <<>>
    /\ errors = <<>>
    /\ prompt = <<>>
    /\ before = ""
    /\ ref_text = <<>>
    /\ lastChat = <<>>
    /\ lastText = <<>>
    /\ rin = NoCall
    /\ rout = NoResult

-----------------------------------------------------------------------------
(* The handlers.  One action is one script run in which a handler's if     *)
(* (line 305, 708 or 758) is entered; a press whose condition is false     *)
(* runs no handler and changes nothing.                                    *)

\* lines 305-308
ClearOutput ==
    /\ output' = ""
    /\ seo_results' = {}
    /\ act' = [Widgets EXCEPT !.handler = "clear"]
    /\ calls' = <<>>
    /\ errors' = <<>>
    /\ prompt' = <<>>
    /\ before' = output
    /\ ref_text' = <<>>
    /\ lastChat' = <<>>
    /\ lastText' = <<>>
    /\ UNCHANGED <<secrets, last_prompt, rin, rout>>

\* the keyword is tested without .strip()
keyword_missing_untrimmed(content_type, primary_keyword) ==
    content_type = "Blog" /\ primary_keyword = ""

\* line 710
keyword_missing(content_type, primary_keyword) ==
    content_type = "Blog" /\ strip(primary_keyword) = ""

\* lines 732-736
build_prompt(w, full_query, final_content) ==
    IF w.content_type = "Blog"
    THEN generate_blog_prompt(w.tone, w.target_audience, w.industry,
             full_query, w.word_limit, final_content,
             strip(w.primary_keyword), w.lsi_keywords,
             cta_mapping(w.cta_choice))
    ELSE generate_video_prompt(w.tone, w.target_audience, w.industry,
             final_content, cta_mapping(w.cta_choice), w.query,
             w.time_limit[1])

\* a run that ends in st.error before the chat client is called
Rejected(w, made, shown) ==
    /\ act' = w
    /\ calls' = made
    /\ errors' = shown
    /\ prompt' = <<>>
    /\ ref_text' = <<>>
    /\ UNCHANGED <<output, seo_results, last_prompt, lastChat, lastText>>

\* the except clause's output = "" reaches the session state
new_output_clobbered(chat, stored) ==
    IF chat.raises THEN "" ELSE chat.content

\* the except clause stores the message it reports
new_output_stores_error(chat, stored) ==
    IF chat.raises THEN "OpenAI API error: " \o chat.msg
    ELSE IF chat.content # "" THEN chat.content
    ELSE stored

\* lines 738-745 and 770-777: the chat call and the store of its text
new_output(chat, stored) ==
    IF ~chat.raises /\ chat.content # "" THEN chat.content ELSE stored

\* lines 723-754: the generate handler once the services are initialised
GenerateRun(w, config) ==
    LET full_query == strip(w.query)
        found == retrieve_trace(full_query, w.uploaded_files, w.url_list,
                                w.db, config.perplexity)
        stored == ~w.chat.raises /\ w.chat.content # ""
    IN /\ act' = w
       /\ calls' = <<InitCall>> \o found.calls
                   \o <<IF w.content_type = "Blog" THEN BlogPromptCall
                        ELSE VideoPromptCall>>
                   \o <<ChatCall(GenerateMaxTokens)>>
       /\ ref_text' = <<found.text>>
       /\ prompt' = <<build_prompt(w, full_query, found.text)>>
       /\ errors' = IF w.chat.raises
                    THEN <<"OpenAI API error: " \o w.chat.msg>>
                    ELSE <<>>
       /\ output' = new_output(w.chat, output)
       /\ last_prompt' = IF stored THEN <<full_query>> ELSE last_prompt
       /\ seo_results' = IF stored /\ w.content_type = "Blog" THEN {}
                         ELSE seo_results
       /\ lastChat' = IF w.chat.raises THEN lastChat ELSE <<w.chat.content>>
       /\ lastText' = IF stored THEN <<w.chat.content>> ELSE lastText

\* lines 708-754
Generate ==
    \E content_type \in ContentTypes, query \in Topics,
       primary_keyword \in Keywords, ref \in References,
       config \in SessSecrets :
        LET w == [Widgets EXCEPT
                     !.handler = "generate",
                     !.content_type = content_type,
                     !.word_limit = IF content_type = "Blog"
                                    THEN <<DefaultWordLimit>> ELSE <<>>,
                     !.time_limit = IF content_type = "Blog"
                                    THEN <<>> ELSE <<DefaultTimeLimit>>,
                     !.query = query,
                     !.primary_keyword = IF content_type = "Blog"
                                         THEN primary_keyword ELSE "",
                     !.uploaded_files = ref.uploaded_files,
                     !.url_list = ref.url_list]
        IN /\ query # ""
           /\ secrets' = config
           /\ before' = output
           /\ UNCHANGED <<rin, rout>>
           /\ IF keyword_missing(w.content_type, w.primary_keyword)
              THEN Rejected(w, <<>>,
                     <<"For Blog generation, Primary Keyword is required.">>)
              ELSE IF missing_secrets(config) # <<>>
              THEN Rejected(w, <<InitCall>>, missing_secrets(config))
              ELSE \E backend \in Backends :
                     IF connect_errors(backend) # <<>>
                     THEN Rejected([w EXCEPT !.backend = backend],
                                   <<InitCall>>, connect_errors(backend))
                     ELSE \E chat \in Chats :
                            GenerateRun([w EXCEPT !.backend = backend,
                                                  !.db = ref.db,
                                                  !.chat = chat], config)

\* the instruction is used without .strip()
refine_prompt_untrimmed(refine_instruction, stored) ==
    "Refine the following content based on instruction: '"
    \o refine_instruction \o "'\n\nContent:\n" \o stored

\* line 769
refine_prompt(refine_instruction, stored) ==
    "Refine the following content based on instruction: '"
    \o strip(refine_instruction) \o "'\n\nContent:\n" \o stored

\* lines 768-782: the refine handler once the services are initialised
RefineRun(w) ==
    LET stored == ~w.chat.raises /\ w.chat.content # ""
    IN /\ act' = w
       /\ calls' = <<InitCall, ChatCall(RefineMaxTokens)>>
       /\ ref_text' = <<>>
       /\ prompt' = <<refine_prompt(w.refine_instruction, output)>>
       /\ errors' = IF w.chat.raises
                    THEN <<"Refinement error: " \o w.chat.msg>>
                    ELSE <<>>
       /\ output' = new_output(w.chat, output)
       /\ seo_results' = IF stored /\ w.content_type = "Blog" THEN {}
                         ELSE seo_results
       /\ lastChat' = IF w.chat.raises THEN lastChat ELSE <<w.chat.content>>
       /\ lastText' = IF stored THEN <<w.chat.content>> ELSE lastText
       /\ UNCHANGED last_prompt

\* lines 758-782
Refine ==
    \E content_type \in ContentTypes, refine_instruction \in Instructions,
       config \in SessSecrets :
        LET w == [Widgets EXCEPT
                     !.handler = "refine", !.content_type = content_type,
                     !.word_limit = IF content_type = "Blog"
                                    THEN <<DefaultWordLimit>> ELSE <<>>,
                     !.time_limit = IF content_type = "Blog"
                                    THEN <<>> ELSE <<DefaultTimeLimit>>,
                     !.refine_instruction = refine_instruction]
        IN /\ output # ""
           /\ refine_instruction # ""
           /\ strip(refine_instruction) # ""
           /\ secrets' = config
           /\ before' = output
           /\ UNCHANGED <<rin, rout>>
           /\ IF missing_secrets(config) # <<>>
              THEN Rejected(w, <<InitCall>>, missing_secrets(config))
              ELSE \E backend \in Backends :
                     IF connect_errors(backend) # <<>>
                     THEN Rejected([w EXCEPT !.backend = backend],
                                   <<InitCall>>, connect_errors(backend))
                     ELSE \E chat \in Chats :
                            RefineRun([w EXCEPT !.backend = backend,
                                                !.chat = chat])

Next == Generate \/ Refine \/ ClearOutput

Spec == Init /\ [][Next]_vars

-----------------------------------------------------------------------------
(* The retrieval functions called directly on drawn arguments, with the    *)
(* session at rest: the arguments are drawn first, then the call is made.  *)

RetrieveArgs ==
    [op : {"retrieve_content"}, query : Queries, api_key : BOOLEAN,
     db : Dbs, uploaded_files : SeqUpTo(Files, MaxFiles),
     url_list : SeqUpTo(ListedUrls, MaxUrls)]

FetchArgs == [op : {"extract_text_from_url"}, url : Urls, api_key : BOOLEAN]

ExtractArgs == [op : {"extract_text_from_file"}, file : Uploads]

InitRetrieve ==
    /\ secrets = AllSecrets
    /\ output = ""
    /\ seo_results = {}
    /\ last_prompt = <<>>
    /\ act = Widgets
    /\ calls = <<>>
    /\ errors = <<>>
    /\ prompt = <<>>
    /\ before = ""
    /\ ref_text = <<>>
    /\ lastChat = <<>>
    /\ lastText = <<>>
    /\ rin \in RetrieveArgs \cup FetchArgs \cup ExtractArgs
    /\ rout = NoResult

Retrieve ==
    /\ rin.op = "retrieve_content"
    /\ ~rout.done
    /\ rout' = [done |-> TRUE] @@
               retrieve_trace(rin.query, rin.uploaded_files, rin.url_list,
                              rin.db, rin.api_key)
    /\ UNCHANGED <<rin, sessionVars>>

FetchUrl ==
    /\ rin.op = "extract_text_from_url"
    /\ ~rout.done
    /\ rout' = [done |-> TRUE] @@ extract_text_from_url(rin.url, rin.api_key)
    /\ UNCHANGED <<rin, sessionVars>>

ExtractFile ==
    /\ rin.op = "extract_text_from_file"
    /\ ~rout.done
    /\ rout' = [done |-> TRUE, text |-> extract_text_from_file(rin.file),
                calls |-> <<>>]
    /\ UNCHANGED <<rin, sessionVars>>

NextRetrieve == Retrieve \/ FetchUrl \/ ExtractFile

SpecRetrieve == InitRetrieve /\ [][NextRetrieve]_vars

-----------------------------------------------------------------------------
(* The prompt builders and enforce_word_limit called directly on drawn     *)
(* arguments, with the session at rest.                                    *)

\* word limits given to generate_blog_prompt: None, 0, the limits around
\* the band width, and the slider's values
BlogWordLimits ==
    {<<>>, <<0>>} \cup {<<n>> : n \in (1..(WordBand + 5)) \cup WordLimits}

\* reference contents as retrieve_content resolves them
Contents ==
    {"", " ", "Alpha", "Stored A\nrow 7\nStored B",
     "Error extracting URL content: connection refused"}

BlogArgs ==
    [op : {"generate_blog_prompt"}, tone : {"Professional", "Witty"},
     target_audience : {"Middle Management", "Junior / Entry Level Staff"},
     industry : {""}, query : {Q_answer}, word_limit : BlogWordLimits,
     final_content : Contents, primary_keyword : {"retail AI"},
     lsi_keywords : {<<"stores", "pricing">>},
     cta_text : {cta_mapping("Request a demo")}]

VideoArgs ==
    [op : {"generate_video_prompt"}, tone : {"Professional", "Witty"},
     target_audience : {"Middle Management"}, industry : {"", "Retail"},
     final_content : Contents, cta_text : {cta_mapping("Request a demo")},
     query : {Q_answer}, time_limit : TimeLimits]

GuidelineArgs ==
    [op : {"generate_prompt_guidelines"},
     tone : ToneOptions \cup ToneKeys \cup {""},
     target_audience : AudienceOptions \cup AudienceKeys \cup {""}]

Words == {"ab", "cd,", ";:", "ef.", "go!", "so?"}
Separators == {" ", "\n\t"}
Paddings == {"", " \f "}

Texts ==
    {pad \o join(sep, ws) \o pad :
        ws \in SeqUpTo(Words, MaxWords), sep \in Separators,
        pad \in Paddings}

EnforceArgs ==
    [op : {"enforce_word_limit"}, text : Texts, limit : (-1)..MaxLimit]

InitBuild ==
    /\ secrets = AllSecrets
    /\ output = ""
    /\ seo_results = {}
    /\ last_prompt = <<>>
    /\ act = Widgets
    /\ calls = <<>>
    /\ errors = <<>>
    /\ prompt = <<>>
    /\ before = ""
    /\ ref_text = <<>>
    /\ lastChat = <<>>
    /\ lastText = <<>>
    /\ rin \in BlogArgs \cup VideoArgs \cup GuidelineArgs \cup EnforceArgs
    /\ rout = NoResult

BuildBlog ==
    /\ rin.op = "generate_blog_prompt"
    /\ ~rout.done
    /\ rout' = [done |-> TRUE, calls |-> <<>>,
                text |-> generate_blog_prompt(rin.tone, rin.target_audience,
                             rin.industry, rin.query, rin.word_limit,
                             rin.final_content, rin.primary_keyword,
                             rin.lsi_keywords, rin.cta_text)]
    /\ UNCHANGED <<rin, sessionVars>>

BuildVideo ==
    /\ rin.op = "generate_video_prompt"
    /\ ~rout.done
    /\ rout' = [done |-> TRUE, calls |-> <<>>,
                text |-> generate_video_prompt(rin.tone, rin.target_audience,
                             rin.industry, rin.final_content, rin.cta_text,
                             rin.query, rin.time_limit)]
    /\ UNCHANGED <<rin, sessionVars>>

Guide ==
    /\ rin.op = "generate_prompt_guidelines"
    /\ ~rout.done
    /\ rout' = [done |-> TRUE] @@
               generate_prompt_guidelines(rin.tone, rin.target_audience)
    /\ UNCHANGED <<rin, sessionVars>>

Enforce ==
    /\ rin.op = "enforce_word_limit"
    /\ ~rout.done
    /\ rout' = [done |-> TRUE, calls |-> <<>>,
                text |-> enforce_word_limit(rin.text, rin.limit)]
    /\ UNCHANGED <<rin, sessionVars>>

NextBuild == BuildBlog \/ BuildVideo \/ Guide \/ Enforce

SpecBuild == InitBuild /\ [][NextBuild]_vars

-----------------------------------------------------------------------------
(* Vocabulary of the properties                                            *)

Called(name) == \E i \in 1..Len(calls) : calls[i][1] = name

RetrievalFunctions ==
    {"extract_text_from_file", "extract_text_from_url", "requests.post",
     "requests.get", "similarity_search", "perplexity_search"}

NoRetrieval == \A i \in 1..Len(calls) : calls[i][1] \notin RetrievalFunctions

ConfigAbsent == ~secrets.database \/ ~secrets.azure

ConfigErrors ==
    {"Service init error: Database secrets not found.",
     "Service init error: Azure secrets not found."}

ConfigErrorReported == \E i \in 1..Len(errors) : errors[i] \in ConfigErrors

KeywordError == "For Blog generation, Primary Keyword is required."

BlankKeywordBlog ==
    /\ act.handler = "generate"
    /\ act.content_type = "Blog"
    /\ strip(act.primary_keyword) = ""

Retrieved == rin.op = "retrieve_content" /\ rout.done
Fetched == rin.op = "extract_text_from_url" /\ rout.done

\* the retrieval tier a call of the trace belongs to, 0 for an HTTP request
TierOfCall(c) ==
    CASE c[1] = "extract_text_from_file" -> 1
      [] c[1] = "extract_text_from_url" -> 2
      [] c[1] = "similarity_search" -> 3
      [] c[1] = "perplexity_search" -> 4
      [] OTHER -> 0

TierRan(k) == \E i \in 1..Len(rout.calls) : TierOfCall(rout.calls[i]) = k

TierCalls(k) ==
    Cardinality({i \in 1..Len(rout.calls) : TierOfCall(rout.calls[i]) = k})

Fresh == [text |-> "", calls |-> <<>>]

\* the trimmed text of each tier on the arguments of the call
Tier1Text == strip(files_loop(rin.uploaded_files, Fresh).text)
Tier2Text == strip(urls_loop(rin.url_list, rin.api_key, Fresh).text)
Tier3Text == strip(hana_tier(rin.query, rin.db, <<>>).text)
Tier4Text == topic_tier(rin.query, rin.api_key, <<>>).text

\* every non-empty text that retrieval can resolve in a generate run
ReferenceTexts ==
    {retrieve_content(strip(q), ref.uploaded_files, ref.url_list, ref.db,
                      config.perplexity) :
        q \in Topics, ref \in References, config \in SessSecrets} \ {""}

IsDiagnostic(t) == startswith(t, "Error extracting URL content: ")

\* every listed URL makes its fetch raise inside extract_text_from_url
AllFetchesRaise ==
    /\ rin.url_list # <<>>
    /\ \A i \in 1..Len(rin.url_list) :
           IsDiagnostic(extract_text_from_url(rin.url_list[i],
                                              rin.api_key).text)

-----------------------------------------------------------------------------
(* Properties of the retrieval chain, under SpecRetrieve                   *)

\* C1: retrieve_content evaluates uploads, URLs, similarity search and topic
\* search in that order, returns the output of the first tier whose text is
\* non-empty after trimming, and never invokes a tier below that one.
C1_FirstNonEmptyTierWins ==
    Retrieved =>
        /\ \A i, j \in 1..Len(rout.calls) :
               (i < j /\ TierOfCall(rout.calls[i]) > 0
                      /\ TierOfCall(rout.calls[j]) > 0)
               => TierOfCall(rout.calls[i]) <= TierOfCall(rout.calls[j])
        /\ TierCalls(1) = Len(rin.uploaded_files)
        /\ Tier1Text # "" =>
               /\ rout.text = Tier1Text
               /\ \A i \in 1..Len(rout.calls) : TierOfCall(rout.calls[i]) = 1
        /\ Tier1Text = "" => TierCalls(2) = Len(rin.url_list)
        /\ (Tier1Text = "" /\ Tier2Text # "") =>
               /\ rout.text = Tier2Text
               /\ ~TierRan(3) /\ ~TierRan(4)
        /\ (Tier1Text = "" /\ Tier2Text = "") =>
               TierCalls(3) = IF rin.db.is_none THEN 0 ELSE 1
        /\ (Tier1Text = "" /\ Tier2Text = "" /\ Tier3Text # "") =>
               /\ rout.text = Tier3Text
               /\ ~TierRan(4)
        /\ (Tier1Text = "" /\ Tier2Text = "" /\ Tier3Text = "") =>
               /\ TierCalls(4) = 1
               /\ strip(Tier4Text) # "" => rout.text = Tier4Text

\* one readable upload beside a URL list: only the upload is read
W_C1 ==
    /\ Retrieved
    /\ rin.uploaded_files = <<F_txt>>
    /\ rin.url_list = <<U_answer, U_down>>
    /\ ~rin.db.is_none
    /\ rout.text = "Alpha"
    /\ rout.calls = <<FileCall(F_txt)>>

\* C3: with no uploaded text and every listed URL failing, the diagnostic
\* string counts as no content: it is not returned as reference context
\* and the chain goes on to the similarity search.
C3_DiagnosticCountsAsEmpty ==
    (Retrieved /\ Tier1Text = "" /\ AllFetchesRaise) =>
        /\ ~IsDiagnostic(rout.text)
        /\ ~rin.db.is_none => TierRan(3)

\* C4: for a non-blank URL the direct GET is issued when no answer-service
\* credential is configured and when the answer-service request fails, and
\* the body of a successful GET is what is returned.
C4_FailedAnswerServiceFallsBackToGet ==
    (/\ Fetched
     /\ strip(rin.url) # ""
     /\ \/ ~rin.api_key
        \/ requests_post(UrlPrompt \o rin.url).raises) =>
        /\ \E i \in 1..Len(rout.calls) : rout.calls[i] = GetCall(rin.url)
        /\ (~requests_get(rin.url).raises /\ requests_get(rin.url).ok)
               => rout.text = requests_get(rin.url).text

\* C9: retrieve_content always returns a string, and a tier 1, 2 or 3 whose
\* collaborator raises counts as empty, the chain going on to the next tier.
C9_FailingTierCountsAsEmpty ==
    Retrieved =>
        /\ rout.text \in STRING
        /\ (\A i \in 1..Len(rin.uploaded_files) :
                rin.uploaded_files[i].failAt = 1)
               => TierCalls(2) = Len(rin.url_list)
        /\ (Tier1Text = "" /\ AllFetchesRaise) =>
               /\ ~IsDiagnostic(rout.text)
               /\ TierCalls(3) = IF rin.db.is_none THEN 0 ELSE 1
        /\ (Tier1Text = "" /\ Tier2Text = "" /\ rin.db.raises) =>
               TierCalls(4) = 1

\* C10: when uploads, URLs and similarity search yield nothing, the result
\* is empty if no answer-service credential is configured or the topic
\* search returns a string that looks like an error message, and is the
\* topic-search text otherwise.
C10_TopicSearchIsLastResort ==
    (Retrieved /\ Tier1Text = "" /\ Tier2Text = "" /\ Tier3Text = "") =>
        LET p_text == perplexity_search(rin.query, rin.api_key).text
            errorlike == startswith(lower(p_text), "perplexity api error")
        IN /\ ~rin.api_key => rout.text = ""
           /\ errorlike => rout.text = ""
           /\ ~errorlike => rout.text = p_text

\* the answer service fails on the topic and its error string is dropped
W_C10 ==
    /\ Retrieved
    /\ rin.api_key
    /\ rin.query = Q_fail
    /\ rin.uploaded_files = <<F_docx>>
    /\ rin.url_list = <<U_404>>
    /\ rin.db = DbBlank
    /\ perplexity_search(rin.query, rin.api_key).text
           = "Perplexity API Error: 503 Server Error"
    /\ rout.text = ""

-----------------------------------------------------------------------------
(* Properties of the session handlers, under Spec                          *)

\* C2: in generate and refine, a chat call that raises leaves the stored
\* output as it was and reports an error; a chat call that returns text
\* makes that text, and nothing else, the stored output.
C2_ChatFailureKeepsOutput ==
    (act.handler \in {"generate", "refine"} /\ Called("call_openai_chat")) =>
        /\ act.chat.raises =>
               /\ output = before
               /\ errors = <<(IF act.handler = "generate"
                              THEN "OpenAI API error: "
                              ELSE "Refinement error: ") \o act.chat.msg>>
        /\ (~act.chat.raises /\ act.chat.content # "") =>
               output = act.chat.content

\* a refinement fails on a stored draft, which stays
W_C2 ==
    /\ act.handler = "refine"
    /\ Called("call_openai_chat")
    /\ act.chat.raises
    /\ before = "Draft one"
    /\ output = "Draft one"
    /\ errors = <<"Refinement error: rate limit">>

\* C5: a Blog generate action whose primary keyword is blank is rejected
\* with an error before any work: no service initialisation, retrieval,
\* prompt building or chat call, and the stored output is unchanged.
C5_BlankKeywordRejectedFirst ==
    BlankKeywordBlog =>
        /\ errors = <<KeywordError>>
        /\ calls = <<>>
        /\ prompt = <<>>
        /\ output = before

\* a whitespace-only keyword with every service configured
W_C5 ==
    /\ BlankKeywordBlog
    /\ act.primary_keyword = " "
    /\ act.uploaded_files # <<>>
    /\ secrets = AllSecrets
    /\ before = "Draft one"
    /\ errors = <<KeywordError>>

\* C6 as stated: with the database or chat-service configuration absent,
\* every generate and refine action reports the configuration error, makes
\* no chat call, runs no retrieval tier and leaves the output unchanged.
C6_EveryActionReportsConfigError ==
    (act.handler \in {"generate", "refine"} /\ ConfigAbsent) =>
        /\ ConfigErrorReported
        /\ ~Called("call_openai_chat")
        /\ NoRetrieval
        /\ output = before

\* C6 amended: with the database or chat-service configuration absent, no
\* generate or refine action makes a chat call or runs a retrieval tier,
\* the output is unchanged, and the configuration error is reported by
\* every such action except a Blog generate with a blank primary keyword.
C6_MissingConfigAborts ==
    (act.handler \in {"generate", "refine"} /\ ConfigAbsent) =>
        /\ ~BlankKeywordBlog => ConfigErrorReported
        /\ ~Called("call_openai_chat")
        /\ NoRetrieval
        /\ output = before

\* a refinement of a stored draft after the chat-service section is gone
W_C6 ==
    /\ act.handler = "refine"
    /\ ~secrets.azure
    /\ before = "Draft two"
    /\ output = "Draft two"
    /\ calls = <<InitCall>>
    /\ ConfigErrorReported

\* C7 as stated: the stored output is empty or the text returned by the
\* most recent successful chat call since the last clear.
C7_OutputIsLatestChatResult ==
    output = "" \/ (lastChat # <<>> /\ output = lastChat[1])

\* C7 amended: the stored output is empty or the text of the most recent
\* successful chat call since the last clear that returned non-empty text;
\* clear empties it; it is never a prompt, an error message or retrieved
\* reference text.
C7_OutputIsLatestChatText ==
    /\ output = "" \/ (lastText # <<>> /\ output = lastText[1])
    /\ act.handler = "clear" => output = ""
    /\ prompt # <<>> => output # prompt[1]
    /\ \A i \in 1..Len(errors) : output # errors[i]
    /\ (ref_text # <<>> /\ ref_text[1] # "") => output # ref_text[1]
    /\ output \notin ReferenceTexts

\* a draft survives a chat call that succeeds with empty content
W_C7 ==
    /\ act.handler \in {"generate", "refine"}
    /\ Called("call_openai_chat")
    /\ ~act.chat.raises
    /\ act.chat.content = ""
    /\ lastText = <<"Draft one">>
    /\ output = "Draft one"
    /\ ref_text = <<"Alpha">>

\* C8: a refine action invokes no retrieval function, and the prompt it
\* sends is "Refine the following content based on instruction:
\* '<trimmed instruction>'\n\nContent:\n<stored output>".
C8_RefineBypassesRetrieval ==
    act.handler = "refine" =>
        /\ NoRetrieval
        /\ Called("call_openai_chat") =>
               prompt = <<"Refine the following content based on "
                          \o "instruction: '"
                          \o strip(act.refine_instruction)
                          \o "'\n\nContent:\n" \o before>>

\* a padded instruction applied to a stored draft
W_C8 ==
    /\ act.handler = "refine"
    /\ Called("call_openai_chat")
    /\ act.refine_instruction = " shorten the intro\n"
    /\ before = "Draft one"
    /\ prompt = <<"Refine the following content based on instruction: "
                  \o "'shorten the intro'\n\nContent:\nDraft one">>

-----------------------------------------------------------------------------
(* Properties of the prompt builders, under SpecBuild                      *)

\* sub occurs in s
contains(s, sub) ==
    \E i \in 1..(Len(s) - Len(sub) + 1) : SubSeq(s, i, i + Len(sub) - 1) = sub

BuiltBlog == rin.op = "generate_blog_prompt" /\ rout.done
BuiltVideo == rin.op = "generate_video_prompt" /\ rout.done
Guided == rin.op = "generate_prompt_guidelines" /\ rout.done
Enforced == rin.op = "enforce_word_limit" /\ rout.done

\* C11: for every duration D of 0.5 to 10.0 minutes in steps of 0.5 the
\* video prompt states max(4, floor(4D)) scenes of floor(60D / scenes)
\* seconds each; 1.5 minutes gives 6 scenes of 15 seconds, and the scene
\* count is never below 4.  D is rin.time_limit half minutes.
C11_ScenesAndSceneDuration ==
    BuiltVideo =>
        LET fourD == 2 * rin.time_limit
            scenes == IF fourD >= 4 THEN fourD ELSE 4
            seconds == (30 * rin.time_limit) \div scenes
        IN /\ scenes >= 4
           /\ contains(rout.text, "\n- Divide into ~" \o str(scenes)
                   \o " scenes (~" \o str(seconds) \o " seconds each)\n")
           /\ contains(rout.text,
                   "(e.g. 0:00-0:" \o str02(seconds) \o ")\n")
           /\ rin.time_limit = 3 =>
                  contains(rout.text,
                      "\n- Divide into ~6 scenes (~15 seconds each)\n")

\* half a minute: the scene count is held at four, 7 seconds each
W_C11 ==
    /\ BuiltVideo
    /\ rin.time_limit = 1
    /\ contains(rout.text, "- Total video duration: ~0.5 minute(s)\n")
    /\ contains(rout.text, "- Divide into ~4 scenes (~7 seconds each)\n")

\* C12: for every positive word limit W the blog prompt embeds the band
\* [max(1, W - 20), W + 20], so [980, 1020] for 1000 and [1, 25] for 5;
\* the lower bound is at least 1 and at most the upper bound; with no
\* word limit no band instruction is embedded.
C12_WordBandEmbedded ==
    BuiltBlog =>
        /\ (rin.word_limit # <<>> /\ rin.word_limit[1] > 0) =>
               LET W == rin.word_limit[1]
                   lo == IF W - 20 >= 1 THEN W - 20 ELSE 1
                   hi == W + 20
               IN /\ 1 <= lo /\ lo <= hi
                  /\ contains(rout.text,
                          "\nThe final blog MUST be between " \o str(lo)
                          \o " and " \o str(hi) \o " words. ")
                  /\ W = 1000 =>
                         contains(rout.text, " between 980 and 1020 words. ")
                  /\ W = 5 =>
                         contains(rout.text, " between 1 and 25 words. ")
        /\ rin.word_limit = <<>> =>
               /\ ~contains(rout.text, "MUST be between")
               /\ ~contains(rout.text, "Do NOT exceed this range")

\* a limit below the band width: the lower bound is held at 1
W_C12 ==
    /\ BuiltBlog
    /\ rin.word_limit = <<5>>
    /\ contains(rout.text, "The final blog MUST be between 1 and 25 words. ")

\* C13: for a limit L > 0, enforce_word_limit returns a text of at most L
\* words; a text of at most L words comes back unchanged; a longer text
\* comes back as its first L words joined by single spaces, ending in '.',
\* '!' or '?', a '.' having replaced trailing ',', ';', ':' where needed.
C13_AtMostLimitWords ==
    (Enforced /\ rin.limit > 0) =>
        LET words == split(rin.text)
            kept == join(" ", SubSeq(words, 1, rin.limit))
        IN /\ Len(split(rout.text)) <= rin.limit
           /\ Len(words) <= rin.limit => rout.text = rin.text
           /\ Len(words) > rin.limit =>
                  /\ \E p \in TerminalPunctuation : endswith(rout.text, p)
                  /\ \/ rout.text = kept
                     \/ \E n \in 0..Len(kept) :
                            /\ rout.text = SubSeq(kept, 1, n) \o "."
                            /\ \A i \in (n + 1)..Len(kept) :
                                   SubSeq(kept, i, i) \in TrailingSeparators

\* three words cut to two, the comma of the second replaced by a full stop
W_C13 ==
    /\ Enforced
    /\ rin.text = " \f ab\n\tcd,\n\tef. \f "
    /\ rin.limit = 2
    /\ rout.text = "ab cd."

\* C14: with empty reference content the blog prompt carries the marker
\* "[No reference content provided]" as its reference section; with
\* non-empty content it carries that content there and not the marker.
C14_EmptyReferenceShowsMarker ==
    BuiltBlog =>
        /\ rin.final_content = "" =>
               contains(rout.text, "\nREFERENCE CONTENT:\n"
                   \o "[No reference content provided]\n")
        /\ rin.final_content # "" =>
               /\ contains(rout.text, "\nREFERENCE CONTENT:\n"
                      \o rin.final_content \o "\n")
               /\ ~contains(rout.text, "[No reference content provided]")

\* a prompt built with nothing retrieved
W_C14 ==
    /\ BuiltBlog
    /\ rin.final_content = ""
    /\ rin.word_limit = <<DefaultWordLimit>>
    /\ contains(rout.text,
           "\nREFERENCE CONTENT:\n[No reference content provided]\n")

\* C15: every tone and every audience that the selectors offer gets a
\* non-empty instruction from generate_prompt_guidelines; an empty
\* instruction is returned only for values the selectors do not offer.
C15_OfferedValuesHaveGuidance ==
    Guided =>
        /\ rin.tone \in ToneOptions => rout.tone_instruction # ""
        /\ rin.target_audience \in AudienceOptions =>
               rout.audience_instruction # ""

-----------------------------------------------------------------------------
(* The topic of a generate action, under Spec                              *)

\* C16: a generate action whose topic is empty after trimming does
\* nothing: no service initialisation, no retrieval, no chat call, and
\* the stored output is unchanged.
C16_BlankTopicDoesNothing ==
    (act.handler = "generate" /\ strip(act.query) = "") =>
        /\ ~Called("init_services")
        /\ NoRetrieval
        /\ ~Called("call_openai_chat")
        /\ output = before

====
